---------------------------- MODULE Spec2Model ----------------------------
(***************************************************************************)
(* The Metropolis-Hastings sampler run_mcmc of Solutions-04.ipynb, with    *)
(* the functions of the notebook it calls (model, ln_likelihood, ln_prior, *)
(* ln_posterior) and the module-global generator np.random it draws from.  *)
(*                                                                         *)
(* Numbers.  Parameter vectors are tuples of integers.  A log value is a   *)
(* float: a record with k in {"fin", "-inf", "+inf", "nan"}, the finite    *)
(* ones on an integer grid (v), with IEEE arithmetic on the non-finite     *)
(* ones and overflow to an infinity beyond FloatMax.  np.random is a       *)
(* seeded stream of raw draws: randn maps a raw draw to a standard-normal  *)
(* value in {-1, 0, 1}, rand maps it to a uniform r in [0, 1), of which    *)
(* only np.log(r) is used: -inf for r = 0, else a negative grid value.     *)
(***************************************************************************)
EXTENDS Integers, Sequences, FiniteSets, TLC

\* ------------------------------------------------------------ bounds
\* nsteps ranges over 1..MaxSteps
MaxSteps == 3
\* the largest finite magnitude of a float of the model
FloatMax == 20
\* two threads: nsteps ranges over 1..MaxStepsPar
MaxStepsPar == 2
\* the components of theta0 are 0 or Far
Far == 3
\* the caller-supplied box posterior is finite for 0 <= theta[0] <= BoxHi
BoxHi == 1
\* 05-Radial-Velocity.ipynb: a parameter vector differs from the base
\* vector in at most MaxOff places
MaxOff == 1

Procs == {1, 2}
NDims == {1, 2}
StepSizes == {1, 2}
RawDraws == {0, 1, 2}
Theta0Vals == {0, Far}

\* ------------------------------------------------------------ floats
Fin(n) == [k |-> "fin", v |-> n]
NegInf == [k |-> "-inf", v |-> 0]
PosInf == [k |-> "+inf", v |-> 0]
NaN == [k |-> "nan", v |-> 0]
\* a local that is not bound yet
Unbound == [k |-> "unbound", v |-> 0]

\* the float nearest to the real number n: an infinity beyond FloatMax
Float(n) ==
  IF n > FloatMax THEN PosInf ELSE IF n < -FloatMax THEN NegInf ELSE Fin(n)

IsFinite(a) == a.k = "fin"

FNeg(a) ==
  CASE a.k = "fin" -> Fin(-a.v)
    [] a.k = "-inf" -> PosInf
    [] a.k = "+inf" -> NegInf
    [] OTHER -> NaN

FAdd(a, b) ==
  CASE a.k = "nan" \/ b.k = "nan" -> NaN
    [] a.k = "fin" /\ b.k = "fin" -> Float(a.v + b.v)
    [] a.k = "fin" -> b
    [] b.k = "fin" -> a
    [] a.k = b.k -> a
    [] OTHER -> NaN

FSub(a, b) == FAdd(a, FNeg(b))

\* a > b of two floats: False when either is nan
FGt(a, b) ==
  CASE a.k = "nan" \/ b.k = "nan" -> FALSE
    [] a.k = "+inf" -> b.k # "+inf"
    [] a.k = "-inf" -> FALSE
    [] b.k = "+inf" -> FALSE
    [] b.k = "-inf" -> TRUE
    [] OTHER -> a.v > b.v

\* a >= b of two floats: False when either is nan
FGe(a, b) ==
  CASE a.k = "nan" \/ b.k = "nan" -> FALSE
    [] OTHER -> ~FGt(b, a)

\* ------------------------------------------------------------ calls
\* What a call gives back: a value, or the exception it raised.
Returned(val) == [raised |-> FALSE, val |-> val, exc |-> "none"]
Raised(exc) == [raised |-> TRUE, val |-> NaN, exc |-> exc]

\* ---------------------------------------------------------- the data
\* args = (x, y, dy): one observation per index
Data == << <<1>>, <<0>>, <<1>> >>
\* args=() is the default of run_mcmc
ArgsChoices == {<<>>, Data}

\* model(theta, x) = theta[0] + theta[1] * x at one x; theta[1] of a
\* one-element theta is an IndexError
Model(theta, x) ==
  IF Len(theta) < 2 THEN Raised("IndexError")
  ELSE Returned(theta[1] + theta[2] * x)

\* np.log(2 * np.pi * dy ** 2) on the grid
LogNorm(dy) == IF dy = 1 THEN 2 ELSE 2 + 2 * (dy - 1)

RECURSIVE SumTerms(_, _, _, _, _)
\* np.sum(np.log(2 pi dy^2) + ((y - model(theta, x)) / dy) ** 2) over the
\* first n observations
SumTerms(theta, x, y, dy, n) ==
  IF n = 0 THEN Fin(0)
  ELSE LET res == (y[n] - Model(theta, x[n]).val) \div dy[n]
       IN FAdd(SumTerms(theta, x, y, dy, n - 1),
               FAdd(Fin(LogNorm(dy[n])), Float(res * res)))

\* ln_likelihood(theta, x, y, dy), called as ln_likelihood(theta, *args):
\* a TypeError unless args holds x, y and dy.  The grid's unit is half a
\* nat, so the factor -0.5 is the sign.
LnLikelihood(theta, args) ==
  IF Len(args) # 3 THEN Raised("TypeError")
  ELSE IF Len(theta) < 2 THEN Raised("IndexError")
  ELSE Returned(FNeg(SumTerms(theta, args[1], args[2], args[3], Len(args[1]))))

\* ln_prior(theta): flat
LnPrior(theta) == Fin(0)

\* ln_posterior(theta, x, y, dy) of the notebook
LnPosterior(theta, args) ==
  IF LnLikelihood(theta, args).raised THEN LnLikelihood(theta, args)
  ELSE Returned(FAdd(LnPrior(theta), LnLikelihood(theta, args).val))

\* A posterior a caller supplies instead: uniform on the box
\* 0 <= theta[0] <= BoxHi, -inf outside it, whatever args holds.
LnUniformBox(theta, args) ==
  IF theta[1] >= 0 /\ theta[1] <= BoxHi THEN Returned(Fin(0))
  ELSE Returned(NegInf)

\* the callables passed as run_mcmc's first argument
PosteriorFns == {"ln_posterior", "ln_uniform_box"}

\* fn(theta, *args)
CallFn(fn, theta, args) ==
  IF fn = "ln_posterior" THEN LnPosterior(theta, args)
  ELSE LnUniformBox(theta, args)

\* ------------------------------------------------------------ state
VARIABLES
  inv,     \* inv[p]: the frame of invocation p of run_mcmc
  rng,     \* np.random: how many draws of the seeded stream are consumed
  stream,  \* the seeded stream, as far as it has been drawn
  fr       \* 05-Radial-Velocity.ipynb: the frames of one evaluation

vars == <<inv, rng, stream, fr>>

Zeros(n) == [k \in 1..n |-> 0]
\* np.zeros((nsteps, ndim))
ZerosChain(nsteps, ndim) == [k \in 1..nsteps |-> Zeros(ndim)]
\* np.zeros(nsteps)
ZerosLog(nsteps) == [k \in 1..nsteps |-> Fin(0)]

Inputs ==
  { [ln_posterior |-> f, nsteps |-> n, ndim |-> d, theta0 |-> t,
     stepsize |-> s, args |-> a] :
      f \in PosteriorFns, n \in 1..MaxSteps, d \in NDims,
      t \in UNION {[1..dd -> Theta0Vals] : dd \in NDims},
      s \in StepSizes, a \in ArgsChoices }

\* the calls the model makes: theta0 has ndim components
ValidInputs == {in \in Inputs : Len(in.theta0) = in.ndim}

NoInputs ==
  [ln_posterior |-> "ln_posterior", nsteps |-> 1, ndim |-> 1,
   theta0 |-> <<0>>, stepsize |-> 1, args |-> <<>>]

\* mutant: the exception is wrapped with the step and the vector
PropagatedWithStep(exc, i, theta) == [type |-> exc, step |-> i, theta |-> theta]

\* An exception as the caller of run_mcmc sees it.  run_mcmc has no try
\* statement: what the callable raised at step i on theta propagates as
\* it is.
Propagated(exc, i, theta) == [type |-> exc]

NoException == [type |-> "none"]

\* a frame before the call
Idle ==
  [pc |-> "idle", in |-> NoInputs, chain |-> <<>>, log_likes |-> <<>>,
   i |-> 0, theta_new |-> <<>>, log_like_new |-> Unbound,
   log_p_accept |-> Unbound, r |-> -1, ret |-> <<>>, exc |-> NoException,
   drawn_at |-> <<>>, evals |-> <<>>]

\* the locals of one brentq call
NoBrentq ==
  [xpre |-> 0, xcur |-> 0, xblk |-> 0, fpre |-> NaN, fcur |-> NaN,
   fblk |-> NaN, iter |-> 0]

\* 05-Radial-Velocity.ipynb before any of its functions is called.  entry
\* is the function called; theta, t, M and e are arguments; ln_prior,
\* rv_model, E, j and br are locals of log_posterior, log_likelihood,
\* radial_velocity, np.vectorize and brentq; rv_calls lists the vectors
\* radial_velocity has been called with.
FrIdle ==
  [pc |-> "idle", entry |-> "none", theta |-> <<>>, t |-> <<>>, M |-> <<>>,
   e |-> 0, E |-> <<>>, j |-> 0, br |-> NoBrentq, ln_prior |-> Unbound,
   rv_model |-> <<>>, ret |-> <<>>, exc |-> "none", rv_calls |-> <<>>]

Init ==
  /\ inv = [p \in Procs |-> Idle]
  /\ rng = 0
  /\ stream = <<>>
  /\ fr = FrIdle

Finished(p) == inv[p].pc \in {"done", "raised"}

\* ------------------------------------------------------------ np.random
\* The next n raw draws of the generator: those the stream already holds
\* at the generator's position, and new ones past its end.
NextRaws(n) ==
  { raws \in [1..n -> RawDraws] :
      \A k \in 1..n : rng + k <= Len(stream) => raws[k] = stream[rng + k] }

\* the stream once raws are drawn at the generator's position
StreamWith(raws) ==
  [k \in 1..(IF rng + Len(raws) > Len(stream) THEN rng + Len(raws) ELSE Len(stream))
     |-> IF k <= Len(stream) THEN stream[k] ELSE raws[k - rng]]

\* the places in the stream of the next n draws
Positions(n) == [k \in 1..n |-> rng + k]

\* np.random.randn: raw draw to standard-normal value
Randn(raw) == raw - 1

\* np.log(r) of the r that np.random.rand() makes of a raw draw: r = 0
\* for raw 0, then r = 1/4, 1/2
NpLog(raw) == IF raw = 0 THEN NegInf ELSE Fin(raw - 3)

\* ------------------------------------------------------------ run_mcmc
\* one evaluation of a callable: which, on what vector, with what
\* arguments after it
Eval(fn, theta, args) == [fn |-> fn, theta |-> theta, args |-> args]

\* the call: the frame gets its arguments
Call(p, in) ==
  inv' = [inv EXCEPT ![p] = [Idle EXCEPT !.pc = "start", !.in = in]]

\* mutant: row 0 is left as np.zeros made it
InitialChainNoTheta0(in) == ZerosChain(in.nsteps, in.ndim)

\* chain = np.zeros((nsteps, ndim)); chain[0] = theta0
InitialChain(in) == [ZerosChain(in.nsteps, in.ndim) EXCEPT ![1] = in.theta0]

\* mutant: args is passed as one argument, not unpacked
StarArgsPacked(p) == <<inv[p].in.args>>

\* *args: the arguments that follow theta in every evaluation
StarArgs(p) == inv[p].in.args

\* chain, log_likes allocated, row 0 set, ln_posterior(chain[0], *args)
Start(p) ==
  /\ inv[p].pc = "start"
  /\ LET in == inv[p].in
         chain0 == InitialChain(in)
         res == CallFn(in.ln_posterior, chain0[1], StarArgs(p))
     IN inv' = [inv EXCEPT ![p] =
          IF res.raised
          THEN [@ EXCEPT !.pc = "raised", !.chain = chain0,
                         !.log_likes = ZerosLog(in.nsteps),
                         !.exc = Propagated(res.exc, 0, chain0[1]),
                         !.evals = <<Eval(in.ln_posterior, chain0[1], StarArgs(p))>>]
          ELSE [@ EXCEPT !.pc = "for", !.chain = chain0,
                         !.log_likes = [ZerosLog(in.nsteps) EXCEPT ![1] = res.val],
                         !.evals = <<Eval(in.ln_posterior, chain0[1], StarArgs(p))>>]]
  /\ UNCHANGED <<rng, stream, fr>>

\* mutant: the draws are not scaled by stepsize
ProposalUnscaled(prev, stepsize, z) == [k \in 1..Len(prev) |-> prev[k] + z[k]]

\* chain[i - 1] + stepsize * np.random.randn(ndim)
Proposal(prev, stepsize, z) == [k \in 1..Len(prev) |-> prev[k] + stepsize * z[k]]

\* mutant: the operands swapped
LogPAcceptSwapped(new, old) == FSub(old, new)

\* log_p_accept = log_like_new - log_likes[i - 1]
LogPAccept(new, old) == FSub(new, old)

\* mutant: a failure of the callable is caught and read as -inf
EvalCandidateCaught(p, theta) ==
  IF LnLikelihood(theta, StarArgs(p)).raised THEN Returned(NegInf)
  ELSE LnLikelihood(theta, StarArgs(p))

\* the callable the loop evaluates on theta_new
EvalCandidate(p, theta) == LnLikelihood(theta, StarArgs(p))

\* the next i of range(1, nsteps), then the proposal, its log value and
\* log_p_accept
Propose(p) ==
  /\ inv[p].pc = "for"
  /\ inv[p].i + 1 < inv[p].in.nsteps
  /\ \E raws \in NextRaws(inv[p].in.ndim) :
       LET f == inv[p]
           i == f.i + 1
           z == [k \in 1..f.in.ndim |-> Randn(raws[k])]
       IN \E theta \in {Proposal(f.chain[i], f.in.stepsize, z)} :
          \E res \in {EvalCandidate(p, theta)} :
          /\ inv' = [inv EXCEPT ![p] =
               IF res.raised
               THEN [@ EXCEPT !.pc = "raised", !.i = i, !.theta_new = theta,
                              !.exc = Propagated(res.exc, i, theta),
                              !.drawn_at = f.drawn_at \o Positions(f.in.ndim),
                              !.evals = Append(f.evals,
                                  Eval("ln_likelihood", theta, StarArgs(p)))]
               ELSE [@ EXCEPT !.pc = "accept", !.i = i, !.theta_new = theta,
                              !.log_like_new = res.val,
                              !.log_p_accept = LogPAccept(res.val, f.log_likes[i]),
                              !.drawn_at = f.drawn_at \o Positions(f.in.ndim),
                              !.evals = Append(f.evals,
                                  Eval("ln_likelihood", theta, StarArgs(p)))]]
          /\ rng' = rng + f.in.ndim
          /\ stream' = StreamWith(raws)
          /\ UNCHANGED fr

\* mutant: r is a module-level name that the first call alone binds, and
\* the comparison reads it
AcceptsGlobalR(p, r) ==
  FGt(inv[p].log_p_accept, NpLog(IF p = 1 THEN r ELSE inv[1].r))

\* mutant: the comparison is >=
AcceptsOrEqual(p, r) == FGe(inv[p].log_p_accept, NpLog(r))

\* log_p_accept > np.log(r), r the uniform just drawn
Accepts(p, r) == FGt(inv[p].log_p_accept, NpLog(r))

\* mutant: an accepted proposal also replaces the current state in place:
\* row i - 1 is overwritten with it
AcceptRejectInPlace(p) ==
  /\ inv[p].pc = "accept"
  /\ \E raws \in NextRaws(1) :
       LET f == inv[p]
           i == f.i
           acc == Accepts(p, raws[1])
       IN /\ inv' = [inv EXCEPT ![p] =
               [@ EXCEPT !.pc = "for", !.r = raws[1],
                         !.chain = [f.chain EXCEPT
                                      ![i] = IF acc THEN f.theta_new ELSE f.chain[i],
                                      ![i + 1] = IF acc THEN f.theta_new ELSE f.chain[i]],
                         !.log_likes = [f.log_likes EXCEPT
                                      ![i] = IF acc THEN f.log_like_new ELSE f.log_likes[i],
                                      ![i + 1] = IF acc THEN f.log_like_new ELSE f.log_likes[i]],
                         !.drawn_at = f.drawn_at \o Positions(1)]]
          /\ rng' = rng + 1
          /\ stream' = StreamWith(raws)
          /\ UNCHANGED fr

\* r = np.random.rand(), then the if / else that writes row i
AcceptReject(p) ==
  /\ inv[p].pc = "accept"
  /\ \E raws \in NextRaws(1) :
       LET f == inv[p]
           i == f.i
           acc == Accepts(p, raws[1])
       IN /\ inv' = [inv EXCEPT ![p] =
               [@ EXCEPT !.pc = "for", !.r = raws[1],
                         !.chain = [f.chain EXCEPT ![i + 1] =
                                      IF acc THEN f.theta_new ELSE f.chain[i]],
                         !.log_likes = [f.log_likes EXCEPT ![i + 1] =
                                      IF acc THEN f.log_like_new ELSE f.log_likes[i]],
                         !.drawn_at = f.drawn_at \o Positions(1)]]
          /\ rng' = rng + 1
          /\ stream' = StreamWith(raws)
          /\ UNCHANGED fr

\* an object handed to the caller
Obj(name, val) == [name |-> name, val |-> val]

\* mutant: return chain, log_likes
ReturnValuePair(p) ==
  <<Obj("chain", inv[p].chain), Obj("log_likes", inv[p].log_likes)>>

\* the value of the return statement: return chain
ReturnValue(p) == <<Obj("chain", inv[p].chain)>>

\* mutant: the loop is over range(1, nsteps - 1)
ReturnEarly(p) ==
  /\ inv[p].pc = "for"
  /\ inv[p].i + 2 >= inv[p].in.nsteps
  /\ inv' = [inv EXCEPT ![p] = [@ EXCEPT !.pc = "done", !.ret = ReturnValue(p)]]
  /\ UNCHANGED <<rng, stream, fr>>

\* range(1, nsteps) is exhausted: return
Return(p) ==
  /\ inv[p].pc = "for"
  /\ inv[p].i + 1 >= inv[p].in.nsteps
  /\ inv' = [inv EXCEPT ![p] = [@ EXCEPT !.pc = "done", !.ret = ReturnValue(p)]]
  /\ UNCHANGED <<rng, stream, fr>>

Step(p) == Start(p) \/ Propose(p) \/ AcceptReject(p) \/ Return(p)

\* ------------------------------------------------------------ callers
\* chain = run_mcmc(...), the generator freshly seeded
FirstRun ==
  /\ inv[1].pc = "idle"
  /\ \E in \in ValidInputs : Call(1, in)
  /\ UNCHANGED <<rng, stream, fr>>

\* np.random.seed(seed) with the same seed, then the same call again
Rerun ==
  /\ Finished(1)
  /\ inv[2].pc = "idle"
  /\ Call(2, inv[1].in)
  /\ rng' = 0
  /\ UNCHANGED <<stream, fr>>

\* a thread calls run_mcmc
FirstThread ==
  /\ inv[1].pc = "idle"
  /\ \E in \in ValidInputs : in.nsteps <= MaxStepsPar /\ Call(1, in)
  /\ UNCHANGED <<rng, stream, fr>>

\* a second thread calls run_mcmc with the same arguments while the first
\* call is under way or over; the threads share np.random
SecondThread ==
  /\ inv[1].pc # "idle"
  /\ inv[2].pc = "idle"
  /\ Call(2, inv[1].in)
  /\ UNCHANGED <<rng, stream, fr>>

\* one call
Next == FirstRun \/ \E p \in Procs : Step(p)

Spec == Init /\ [][Next]_vars

\* one call after the other, the generator seeded before each
NextRerun == FirstRun \/ Rerun \/ \E p \in Procs : Step(p)

SpecRerun == Init /\ [][NextRerun]_vars

\* two calls in two threads
NextPar == FirstThread \/ SecondThread \/ \E p \in Procs : Step(p)

SpecPar == Init /\ [][NextPar]_vars

\* ----------------------------------------------------------------------
\* 05-Radial-Velocity.ipynb: compute_E, radial_velocity, log_prior,
\* log_likelihood, log_posterior.
\*
\* Numbers.  A finite float is Fin(v) with v in thousandths (an angle in
\* thousandths of a radian); NaN and the infinities are as above.  Sums
\* and products of finite floats are exact up to the thousandth, and no
\* value of the model is large enough to overflow.  float64 is finer near
\* 0 than near 1: NegTiny is a negative float whose magnitude is below
\* half the spacing of the floats next to 1 (-1e-20, say).

\* one, in thousandths
Milli == 1000
\* np.pi, 2 * np.pi and np.pi / 2 in thousandths
Pi == 3142
TwoPi == 6283
HalfPi == 1571
\* np.log(2) in millionths
Ln2Micro == 693147

NegTiny == [k |-> "-tiny", v |-> 0]

IsInf(a) == a.k \in {"-inf", "+inf"}

\* |n|
Abs(n) == IF n < 0 THEN -n ELSE n

\* the quotient a / b of integers, b # 0, rounded down
DivFloor(a, b) == IF b < 0 THEN (-a) \div (-b) ELSE a \div b

\* a * b of two numbers in thousandths
MulQ(a, b) == a * (b \div Milli) + (a * (b % Milli)) \div Milli

\* a / b of two numbers in thousandths, b # 0
DivQ(a, b) ==
  LET n == IF b < 0 THEN -a ELSE a
      d == Abs(b)
  IN (n \div d) * Milli + ((n % d) * Milli) \div d

\* a + b of floats that are finite or nan
QAdd(a, b) == IF IsFinite(a) /\ IsFinite(b) THEN Fin(a.v + b.v) ELSE NaN
QSub(a, b) == IF IsFinite(a) /\ IsFinite(b) THEN Fin(a.v - b.v) ELSE NaN
QMul(a, b) == IF IsFinite(a) /\ IsFinite(b) THEN Fin(MulQ(a.v, b.v)) ELSE NaN

\* np.sqrt: nan (and a warning) below 0
Sqrt(a) ==
  IF ~IsFinite(a) \/ a.v < 0 THEN NaN
  ELSE Fin(CHOOSE r \in 0..(2 * Milli) :
             r * r <= Milli * a.v /\ (r + 1) * (r + 1) > Milli * a.v)

\* sin on [0, pi] (Bhaskara's rational form, within 2 thousandths)
SinHalfTurn(y) ==
  (16 * y * (Pi - y)) \div ((5 * Pi * Pi - 4 * y * (Pi - y)) \div Milli)

\* np.sin of an angle
SinQ(x) ==
  LET y == x % TwoPi
  IN IF y <= Pi THEN SinHalfTurn(y) ELSE -SinHalfTurn(y - Pi)

\* np.cos of an angle
CosQ(x) == SinQ(x + HalfPi)

Sin(a) == IF IsFinite(a) THEN Fin(SinQ(a.v)) ELSE NaN
Cos(a) == IF IsFinite(a) THEN Fin(CosQ(a.v)) ELSE NaN

\* arctan on [0, 1] (within 4 thousandths)
AtanUnit(z) == (z * (785 + (273 * (Milli - z)) \div Milli)) \div Milli

\* arctan(y / x) for y >= 0, x >= 0, not both 0
AtanQuadrant(y, x) ==
  IF y <= x THEN AtanUnit((Milli * y) \div x)
  ELSE HalfPi - AtanUnit((Milli * x) \div y)

\* np.arctan2(y, x) of finite numbers: the angle of (x, y) in (-pi, pi]
Arctan2Q(y, x) ==
  IF x = 0 /\ y = 0 THEN 0
  ELSE LET a == IF x >= 0 THEN AtanQuadrant(Abs(y), x)
                ELSE Pi - AtanQuadrant(Abs(y), -x)
       IN IF y >= 0 THEN a ELSE -a

Arctan2(y, x) ==
  IF IsFinite(y) /\ IsFinite(x) THEN Fin(Arctan2Q(y.v, x.v)) ELSE NaN

\* np.log on [1, 2), in millionths: 2 * (y + y^3 / 3 + y^5 / 5) with
\* y = (v - 1) / (v + 1)
LnMantissa(v) ==
  LET y == ((v - Milli) * Milli * Milli) \div (v + Milli)
      y2 == (y \div Milli) * (y \div Milli)
      y3 == (y2 * (y \div Milli)) \div Milli
      y5 == ((y3 \div 100) * (y2 \div 100)) \div 100
  IN 2 * (y + y3 \div 3 + y5 \div 5)

RECURSIVE LnMicro(_)
\* np.log of v > 0 in thousandths, in millionths
LnMicro(v) ==
  IF v >= 2 * Milli THEN Ln2Micro + LnMicro(v \div 2)
  ELSE IF v < Milli THEN LnMicro(2 * v) - Ln2Micro
  ELSE LnMantissa(v)

\* np.log: -inf at 0, nan below
Log(a) ==
  IF ~IsFinite(a) \/ a.v < 0 THEN NaN
  ELSE IF a.v = 0 THEN NegInf
  ELSE Fin(DivFloor(LnMicro(a.v), Milli))

\* ------------------------------------------------------- Kepler solver
\* f = lambda E, M=M, e=e: E - e * np.sin(E) - M
KeplerF(E, M, e) ==
  IF IsFinite(M) THEN Fin(E - MulQ(e, SinQ(E)) - M.v) ELSE NaN

\* a * b < 0, a * b > 0, a == 0 and |a| < |b| of floats: False with a nan
ProdNeg(a, b) ==
  IsFinite(a) /\ IsFinite(b) /\ ((a.v < 0 /\ b.v > 0) \/ (a.v > 0 /\ b.v < 0))
ProdPos(a, b) ==
  IsFinite(a) /\ IsFinite(b) /\ ((a.v < 0 /\ b.v < 0) \/ (a.v > 0 /\ b.v > 0))
IsZero(a) == IsFinite(a) /\ a.v = 0
AbsLt(a, b) == IsFinite(a) /\ IsFinite(b) /\ Abs(a.v) < Abs(b.v)

\* brentq's maxiter, left at its default by the call
BrentqMaxIter == 100

\* mutant: the signs of f at the ends of the interval are not compared
SignErrorUnchecked(fa, fb) == FALSE

\* brentq: f(a) and f(b) must have different signs
SignError(fa, fb) == ProdPos(fa, fb)

\* (xblk - xcur) / 2, to the thousandth nearer 0
HalfStep(d) == IF d < 0 THEN -((-d) \div 2) ELSE d \div 2

\* the locals of brentq(f, 0, 2 * np.pi) as its loop is entered
BrentqEnter(M, e) ==
  [xpre |-> 0, xcur |-> TwoPi, xblk |-> 0,
   fpre |-> KeplerF(0, M, e), fcur |-> KeplerF(TwoPi, M, e),
   fblk |-> Fin(0), iter |-> 0]

\* the head of an iteration of brentq: the end of the bracket opposite
\* to xcur, then xcur made the better end of the two
BrentqBracket(b) ==
  LET b1 == IF ProdNeg(b.fpre, b.fcur)
            THEN [b EXCEPT !.xblk = b.xpre, !.fblk = b.fpre] ELSE b
  IN IF AbsLt(b1.fblk, b1.fcur)
     THEN [b1 EXCEPT !.xpre = b1.xcur, !.xcur = b1.xblk, !.xblk = b1.xcur,
                     !.fpre = b1.fcur, !.fcur = b1.fblk, !.fblk = b1.fcur]
     ELSE b1

\* ------------------------------------------------------ radial_velocity
\* t / T: numpy's division, which warns and gives an infinity or nan at
\* T = 0
PhaseDiv(t, T) ==
  IF t.k = "-tiny"
  THEN (IF T > 0 THEN NegTiny ELSE IF T < 0 THEN Fin(0) ELSE NegInf)
  ELSE IF T = 0
  THEN (IF t.v > 0 THEN PosInf ELSE IF t.v < 0 THEN NegInf ELSE NaN)
  ELSE Fin(DivQ(t.v, T))

\* x + chi: a tiny x is lost in a chi that is not 0
PhaseAdd(x, chi) ==
  IF x.k = "-tiny" THEN (IF chi = 0 THEN NegTiny ELSE Fin(chi))
  ELSE IF IsFinite(x) THEN Fin(x.v + chi)
  ELSE x

\* x % 1 (np.remainder): fmod(x, 1), plus 1 if that is negative, the sum
\* rounded to a float: 1.0 for a tiny negative x; nan for an infinity
Mod1(x) ==
  IF x.k = "-tiny" THEN Fin(Milli)
  ELSE IF IsFinite(x) THEN Fin(x.v % Milli)
  ELSE NaN

\* M = 2 * np.pi * ((t / T + chi) % 1)
MeanAnomaly(t, T, chi) == QMul(Fin(TwoPi), Mod1(PhaseAdd(PhaseDiv(t, T), chi)))

\* f = 2 * np.arctan2(np.sqrt(1 + e) * np.sin(E / 2),
\*                    np.sqrt(1 - e) * np.cos(E / 2))
TrueAnomaly(E, e) ==
  LET half == IF IsFinite(E) THEN Fin(E.v \div 2) ELSE NaN
  IN QMul(Fin(2 * Milli),
          Arctan2(QMul(Sqrt(Fin(Milli + e)), Sin(half)),
                  QMul(Sqrt(Fin(Milli - e)), Cos(half))))

\* V - K * (np.sin(f + omega) + e * np.sin(omega)), theta[:6] being
\* T, e, K, V, omega, chi
Velocity(E, theta) ==
  QSub(Fin(theta[4]),
       QMul(Fin(theta[3]),
            QAdd(Sin(QAdd(TrueAnomaly(E, theta[2]), Fin(theta[5]))),
                 QMul(Fin(theta[2]), Sin(Fin(theta[5]))))))

\* ------------------------------------------------- prior and likelihood
\* theta_min, theta_max = map(np.array, zip(*theta_lim)), in the order
\* T, e, K, V, omega, chi, s
ThetaMin == <<200, 0, 10, -2000000, 0, 0, 1>>
ThetaMax == <<2000000, 1000, 2000000, 2000000, TwoPi, 1000, 100000>>

RECURSIVE SumLog(_, _, _)
\* np.sum(np.log(theta[idx])) over the first n places of idx
SumLog(theta, idx, n) ==
  IF n = 0 THEN Fin(0)
  ELSE QAdd(SumLog(theta, idx, n - 1), Log(Fin(theta[idx[n]])))

\* mutant: the Jeffreys prior is taken on theta[[0, 1, 6]]
LogPriorOnE(theta) ==
  IF (\E i \in 1..7 : theta[i] < ThetaMin[i]) \/ (\E i \in 1..7 : theta[i] > ThetaMax[i])
  THEN NegInf
  ELSE QSub(Fin(0), SumLog(theta, <<1, 2, 7>>, 3))

\* log_prior(theta): -inf outside the limits, else the Jeffreys prior on
\* T, K and s, theta[[0, 2, 6]]
LogPrior(theta) ==
  IF (\E i \in 1..7 : theta[i] < ThetaMin[i]) \/ (\E i \in 1..7 : theta[i] > ThetaMax[i])
  THEN NegInf
  ELSE QSub(Fin(0), SumLog(theta, <<1, 3, 7>>, 3))

\* a / b of floats, b not 0
QDiv(a, b) ==
  IF IsFinite(a) /\ IsFinite(b) /\ b.v # 0 THEN Fin(DivQ(a.v, b.v)) ELSE NaN

RECURSIVE SumResiduals(_, _, _, _, _)
\* np.sum(np.log(sq_err) + (rv - rv_model) ** 2 / sq_err) over the first
\* n observations, sq_err = rv_err ** 2 + theta[6] ** 2
SumResiduals(s, rv, rv_err, rv_model, n) ==
  IF n = 0 THEN Fin(0)
  ELSE LET sq_err == QAdd(QMul(rv_err[n], rv_err[n]), QMul(Fin(s), Fin(s)))
           d == QSub(rv[n], rv_model[n])
       IN QAdd(SumResiduals(s, rv, rv_err, rv_model, n - 1),
               QAdd(Log(sq_err), QDiv(QMul(d, d), sq_err)))

\* log_likelihood(theta, t, rv, rv_err), given what radial_velocity(t,
\* theta) returned
LogLikelihood(theta, rv, rv_err, rv_model) ==
  LET sum == SumResiduals(theta[7], rv, rv_err, rv_model, Len(rv))
  IN IF IsFinite(sum) THEN Fin(DivFloor(-sum.v, 2)) ELSE NaN

\* ------------------------------------------------------------ the calls
\* (t_sim, rv_sim, err_sim): the observations
Obs ==
  [t |-> <<Fin(250), Fin(1500)>>, rv |-> <<Fin(500), Fin(-500)>>,
   rv_err |-> <<Fin(1000), Fin(2000)>>]

\* T = 1, e = 0.5, K = 1, V = 0, omega = pi / 2, chi = 0.25, s = 1
Base == <<1000, 500, 1000, 0, HalfPi, 250, 1000>>

\* the values a caller gives each parameter.  log_prior is called with
\* values below, at and above each limit; the sampler proposes vectors in
\* and out of the limits (the in-range K, V and s small, so that the
\* squared residual stays within the integers of the model); the callers
\* of radial_velocity (plot_RV's sliders, the simulated data) choose T, e
\* freely.
PriorVals ==
  << {100, 200, 2000000, 2001000}, {-500, 0, 1000, 1500},
     {0, 10, 2000000, 2001000}, {-2001000, -2000000, 2000000, 2001000},
     {-1000, 0, TwoPi, 7000}, {-250, 0, 1000, 1250},
     {0, 1, 100000, 101000} >>
SamplerVals ==
  << {100, 200, 2000000, 2001000}, {-500, 0, 1000, 1500},
     {0, 10, 2001000}, {-2001000, 12000, 2001000},
     {-1000, 0, TwoPi, 7000}, {-250, 0, 1000, 1250},
     {0, 1, 101000} >>
DirectVals ==
  << {-1000, 0, 5000}, {-500, 0, 1000, 1500}, {0, 2000000},
     {-2000000, 2000000}, {0, TwoPi}, {-250, 0, 1000}, {1000} >>

\* the vectors log_prior is called with
PriorThetas ==
  {Base} \cup
  { <<a, b, c, d, o, x, s>> :
      a \in PriorVals[1], b \in PriorVals[2], c \in PriorVals[3],
      d \in PriorVals[4], o \in PriorVals[5], x \in PriorVals[6],
      s \in PriorVals[7] }

RECURSIVE Near(_, _)
\* the vectors that differ from Base in at most n places, by values of
\* vals
Near(vals, n) ==
  IF n = 0 THEN {Base}
  ELSE LET prev == Near(vals, n - 1)
       IN prev \cup UNION { { [th EXCEPT ![i] = v] : v \in vals[i] } :
                              th \in prev, i \in 1..7 }

\* the times radial_velocity is called at when called directly
DirectTimes ==
  { <<Fin(0), Fin(1250)>>, <<Fin(-1750)>>, <<Fin(-250), Fin(250)>>, <<NegTiny>> }

\* the (M, e) compute_E is called with when called directly
DirectM == {Fin(-1000), Fin(0), Fin(HalfPi), Fin(TwoPi), Fin(7000), NaN}
DirectE == {0, 500, 900}

\* log_prior(theta)
CallLogPrior ==
  /\ fr.pc = "idle"
  /\ \E theta \in PriorThetas :
       fr' = [FrIdle EXCEPT !.pc = "done", !.entry = "log_prior",
                            !.theta = theta, !.ret = <<LogPrior(theta)>>]
  /\ UNCHANGED <<inv, rng, stream>>

\* the sampler evaluates log_posterior(theta, t_sim, rv_sim, err_sim) on a
\* vector it proposes
CallLogPosterior ==
  /\ fr.pc = "idle"
  /\ \E theta \in Near(SamplerVals, MaxOff) :
       fr' = [FrIdle EXCEPT !.pc = "log_posterior", !.entry = "log_posterior",
                            !.theta = theta, !.t = Obs.t]
  /\ UNCHANGED <<inv, rng, stream>>

\* log_posterior: ln_prior = log_prior(theta); it is returned if it is
\* infinite, else log_likelihood is entered, which calls
\* radial_velocity(t, theta)
PosteriorPrior ==
  /\ fr.pc = "log_posterior"
  /\ LET ln_prior == LogPrior(fr.theta)
     IN fr' = IF IsInf(ln_prior)
              THEN [fr EXCEPT !.pc = "done", !.ln_prior = ln_prior,
                              !.ret = <<ln_prior>>]
              ELSE [fr EXCEPT !.pc = "radial_velocity", !.ln_prior = ln_prior,
                              !.rv_calls = Append(fr.rv_calls, fr.theta)]
  /\ UNCHANGED <<inv, rng, stream>>

\* radial_velocity(t, theta) called by plot_RV or on the simulated times
CallRadialVelocity ==
  /\ fr.pc = "idle"
  /\ \E theta \in Near(DirectVals, MaxOff), t \in DirectTimes :
       fr' = [FrIdle EXCEPT !.pc = "radial_velocity", !.entry = "radial_velocity",
                            !.theta = theta, !.t = t, !.rv_calls = <<theta>>]
  /\ UNCHANGED <<inv, rng, stream>>

\* radial_velocity: theta[:6] unpacked, M computed, compute_E(M, e)
\* called
MeanAnomalyStep ==
  /\ fr.pc = "radial_velocity"
  /\ fr' = [fr EXCEPT !.pc = "compute_E",
                      !.M = [j \in 1..Len(fr.t) |->
                               MeanAnomaly(fr.t[j], fr.theta[1], fr.theta[6])],
                      !.e = fr.theta[2], !.E = <<>>, !.j = 1]
  /\ UNCHANGED <<inv, rng, stream>>

\* compute_E(M, e) called on its own
CallComputeE ==
  /\ fr.pc = "idle"
  /\ \E M \in DirectM, e \in DirectE :
       fr' = [FrIdle EXCEPT !.pc = "compute_E", !.entry = "compute_E",
                            !.M = <<M>>, !.e = e, !.j = 1]
  /\ UNCHANGED <<inv, rng, stream>>

\* The frames once brentq has returned x for element j: np.vectorize goes
\* on to the next element, or compute_E returns the array E, to its caller
\* or into radial_velocity.
ElementSolved(x) ==
  LET E == Append(fr.E, Fin(x))
  IN IF fr.j < Len(fr.M)
     THEN [fr EXCEPT !.pc = "compute_E", !.E = E, !.j = fr.j + 1, !.br = NoBrentq]
     ELSE IF fr.entry = "compute_E"
     THEN [fr EXCEPT !.pc = "done", !.E = E, !.br = NoBrentq, !.ret = E]
     ELSE [fr EXCEPT !.pc = "velocity", !.E = E, !.br = NoBrentq]

\* np.vectorize calls the body on element j: brentq(f, 0, 2 * np.pi)
\* evaluates f at both ends, raises ValueError unless the signs differ,
\* returns an end where f is 0, and else enters its loop.  On a nan the
\* sign test does not fire: a scipy that checks function values raises
\* ValueError, one that does not enters the loop.
BrentqStart ==
  /\ fr.pc = "compute_E"
  /\ LET b == BrentqEnter(fr.M[fr.j], fr.e)
     IN \E checks_nan \in BOOLEAN :
          fr' = IF SignError(b.fpre, b.fcur)
                THEN [fr EXCEPT !.pc = "raised", !.br = b, !.exc = "ValueError"]
                ELSE IF IsZero(b.fpre) THEN ElementSolved(b.xpre)
                ELSE IF IsZero(b.fcur) THEN ElementSolved(b.xcur)
                ELSE IF checks_nan /\ ~(IsFinite(b.fpre) /\ IsFinite(b.fcur))
                THEN [fr EXCEPT !.pc = "raised", !.br = b, !.exc = "ValueError"]
                ELSE [fr EXCEPT !.pc = "brentq", !.br = b]
  /\ UNCHANGED <<inv, rng, stream>>

\* one iteration of brentq's loop, with the bisection step: RuntimeError
\* after maxiter iterations, xcur returned once f is 0 there or the
\* bracket is within the tolerance, else xcur moved to the middle of the
\* bracket
BrentqIter ==
  /\ fr.pc = "brentq"
  /\ LET b == BrentqBracket(fr.br)
         sbis == HalfStep(b.xblk - b.xcur)
     IN fr' = IF fr.br.iter >= BrentqMaxIter
              THEN [fr EXCEPT !.pc = "raised", !.exc = "RuntimeError"]
              ELSE IF IsZero(b.fcur) \/ sbis = 0 THEN ElementSolved(b.xcur)
              ELSE [fr EXCEPT !.br =
                      [b EXCEPT !.xpre = b.xcur, !.fpre = b.fcur,
                                !.xcur = b.xcur + sbis,
                                !.fcur = KeplerF(b.xcur + sbis, fr.M[fr.j], fr.e),
                                !.iter = b.iter + 1]]
  /\ UNCHANGED <<inv, rng, stream>>

\* radial_velocity: the true anomaly and the velocity of each element;
\* the array is returned to the caller, or to log_likelihood as rv_model
RadialVelocityReturn ==
  /\ fr.pc = "velocity"
  /\ LET v == [j \in 1..Len(fr.E) |-> Velocity(fr.E[j], fr.theta)]
     IN fr' = IF fr.entry = "radial_velocity"
              THEN [fr EXCEPT !.pc = "done", !.ret = v]
              ELSE [fr EXCEPT !.pc = "log_likelihood", !.rv_model = v]
  /\ UNCHANGED <<inv, rng, stream>>

\* log_likelihood returns, and log_posterior returns ln_prior + it
LikelihoodReturn ==
  /\ fr.pc = "log_likelihood"
  /\ fr' = [fr EXCEPT !.pc = "done",
              !.ret = <<QAdd(fr.ln_prior,
                             LogLikelihood(fr.theta, Obs.rv, Obs.rv_err, fr.rv_model))>>]
  /\ UNCHANGED <<inv, rng, stream>>

\* one evaluation of a function of the notebook
NextRV ==
  \/ CallLogPrior \/ CallLogPosterior \/ CallRadialVelocity \/ CallComputeE
  \/ PosteriorPrior \/ MeanAnomalyStep \/ BrentqStart \/ BrentqIter
  \/ RadialVelocityReturn \/ LikelihoodReturn

SpecRV == Init /\ [][NextRV]_vars

\* ------------------------------------------------------------ claims
\* Row k of chain and of log_likes is Python's index k - 1.  After
\* iteration i the frame still holds theta_new, log_like_new, log_p_accept
\* and r of that iteration; row i is the previous state, row i + 1 the
\* one the iteration wrote.

\* the frame has completed iteration i >= 1
AfterStep(p) == inv[p].pc \in {"for", "done"} /\ inv[p].i >= 1

\* the rows of log_likes written so far
Written(p) ==
  IF inv[p].pc \in {"for", "done"} THEN inv[p].i + 1
  ELSE IF inv[p].pc = "accept" THEN inv[p].i
  ELSE IF inv[p].pc = "raised" THEN inv[p].i
  ELSE 0

\* the candidate of the last iteration was accepted
Accepted(p) ==
  /\ inv[p].chain[inv[p].i + 1] = inv[p].theta_new
  /\ inv[p].log_likes[inv[p].i + 1] = inv[p].log_like_new

\* C1: when a run completes, chain and log_likes have nsteps entries each,
\* chain[0] is theta0 and log_likes[0] is ln_posterior(theta0, *args).
C1_ChainInvariant ==
  \A p \in Procs : inv[p].pc = "done" =>
    /\ Len(inv[p].chain) = inv[p].in.nsteps
    /\ Len(inv[p].log_likes) = inv[p].in.nsteps
    /\ inv[p].chain[1] = inv[p].in.theta0
    /\ inv[p].log_likes[1] =
         CallFn(inv[p].in.ln_posterior, inv[p].in.theta0, inv[p].in.args).val

\* a completed run of three steps from a theta0 that is not the zero
\* vector, which has moved
C1_Witness ==
  /\ inv[1].pc = "done"
  /\ inv[1].in.nsteps = 3
  /\ inv[1].in.theta0 = <<0, Far>>
  /\ inv[1].chain[3] # inv[1].chain[1]

\* C2 as claimed: the caller gets the pair (chain, log_values).
C2_ReturnsPair ==
  \A p \in Procs : inv[p].pc = "done" =>
    /\ Len(inv[p].ret) = 2
    /\ inv[p].ret[1] = Obj("chain", inv[p].chain)
    /\ inv[p].ret[2] = Obj("log_likes", inv[p].log_likes)

\* C2 amended: the caller gets the chain alone, of nsteps rows; the log
\* values stay in the frame.
C2_ReturnsChainOnly ==
  \A p \in Procs : inv[p].pc = "done" =>
    /\ inv[p].ret = <<Obj("chain", inv[p].chain)>>
    /\ Len(inv[p].ret[1].val) = inv[p].in.nsteps

\* a run has returned a chain of three rows
C2_Witness ==
  /\ inv[1].pc = "done"
  /\ Len(inv[1].ret) = 1
  /\ Len(inv[1].ret[1].val) = 3

\* C3 as claimed: every written log_likes[i] is the passed ln_posterior
\* at chain[i].
C3_LogValuesArePosterior ==
  \A p \in Procs : \A k \in 1..Written(p) :
    LET res == CallFn(inv[p].in.ln_posterior, inv[p].chain[k], inv[p].in.args)
    IN ~res.raised /\ inv[p].log_likes[k] = res.val

\* C4 as claimed: a candidate whose log value is >= log_likes[i - 1] is
\* accepted, whatever r.
C4_AcceptanceMonotone ==
  \A p \in Procs :
    (AfterStep(p) /\ FGe(inv[p].log_like_new, inv[p].log_likes[inv[p].i]))
      => Accepted(p)

\* C5: from a current log value of -inf a candidate of finite log value is
\* accepted, whatever r, and the row written holds that finite value.
C5_LeavesMinusInfinity ==
  \A p \in Procs :
    (AfterStep(p) /\ inv[p].log_likes[inv[p].i] = NegInf
                  /\ IsFinite(inv[p].log_like_new))
      => Accepted(p) /\ IsFinite(inv[p].log_likes[inv[p].i + 1])

\* the second step of a run leaves -inf on r = 0, after a first step that
\* stayed there
C5_Witness ==
  /\ AfterStep(1)
  /\ inv[1].i = 2
  /\ inv[1].log_likes[1] = NegInf
  /\ inv[1].log_likes[2] = NegInf
  /\ IsFinite(inv[1].log_like_new)
  /\ inv[1].r = 0
  /\ inv[1].chain[3] = inv[1].theta_new
  /\ inv[1].chain[3] # inv[1].chain[2]

\* C6 as claimed: with the current and the candidate log value both -inf
\* the candidate is accepted.
C6_DegenerateAccepts ==
  \A p \in Procs :
    (AfterStep(p) /\ inv[p].log_likes[inv[p].i] = NegInf
                  /\ inv[p].log_like_new = NegInf)
      => inv[p].chain[inv[p].i + 1] = inv[p].theta_new

OwnStream(p) ==
  \A k \in 2..Len(inv[p].drawn_at) :
    inv[p].drawn_at[k] = inv[p].drawn_at[k - 1] + 1

\* C8 as claimed: calls running in parallel share no mutable state: what
\* a call draws does not depend on how its steps interleave with the
\* other call's.
C8_NoSharedGenerator == \A p \in Procs : OwnStream(p)

\* C9: a failure of the callable at row 0 or on a candidate ends the run
\* there: the frame is in its raised state at that step, nothing is
\* returned, and no row past the step is written.
C9_FailureAborts ==
  \A p \in Procs :
    LET f == inv[p]
    IN /\ (f.pc \notin {"idle", "start"}
             /\ CallFn(f.in.ln_posterior, f.in.theta0, f.in.args).raised)
          => f.pc = "raised" /\ f.i = 0
       /\ (f.pc \notin {"idle", "start"} /\ f.i >= 1
             /\ LnLikelihood(f.theta_new, f.in.args).raised)
          => f.pc = "raised"
       /\ f.pc = "raised" =>
            /\ f.ret = <<>>
            /\ \A k \in (f.i + 1)..f.in.nsteps :
                 k > 1 => f.chain[k] = Zeros(f.in.ndim) /\ f.log_likes[k] = Fin(0)

\* a run of three steps has failed on its first candidate
C9_Witness ==
  /\ inv[1].pc = "raised"
  /\ inv[1].i = 1
  /\ inv[1].in.nsteps = 3
  /\ Len(inv[1].theta_new) = 1

\* C10 as claimed: a failed run reports the step and the vector.
C10_ReportsStepAndVector ==
  \A p \in Procs : inv[p].pc = "raised" =>
    /\ "step" \in DOMAIN inv[p].exc
    /\ "theta" \in DOMAIN inv[p].exc

\* C10 amended: a failed run hands the caller the callable's own exception
\* and nothing else: neither the step nor the vector.
C10_PropagatesUnchanged ==
  \A p \in Procs : inv[p].pc = "raised" =>
    /\ DOMAIN inv[p].exc = {"type"}
    /\ inv[p].exc.type \in {"TypeError", "IndexError"}
    /\ inv[p].exc.type =
         (IF inv[p].i = 0
          THEN CallFn(inv[p].in.ln_posterior, inv[p].in.theta0, inv[p].in.args).exc
          ELSE LnLikelihood(inv[p].theta_new, inv[p].in.args).exc)

\* a run has failed on a candidate with an IndexError
C10_Witness ==
  /\ inv[1].pc = "raised"
  /\ inv[1].i = 1
  /\ inv[1].exc.type = "IndexError"

\* the raw draws of the last iteration: ndim for the proposal, then one
\* for r
LastDraws(p) ==
  LET n == inv[p].in.ndim
      d == inv[p].drawn_at
  IN [k \in 1..(n + 1) |-> stream[d[Len(d) - (n + 1) + k]]]

C17_AppendOnly ==
  [][\A p \in Procs : \A k \in 1..Len(inv[p].chain) :
       (inv'[p].chain[k] # inv[p].chain[k] \/ inv'[p].log_likes[k] # inv[p].log_likes[k])
         => (inv[p].pc = "accept" /\ k = inv[p].i + 1)]_vars

\* iteration 2 has written row 2 after iteration 1 wrote row 1, each
\* with an accepted proposal that moved
C17_Witness ==
  /\ AfterStep(1)
  /\ inv[1].i = 2
  /\ inv[1].chain[2] # inv[1].chain[1]
  /\ inv[1].chain[3] # inv[1].chain[2]
  /\ inv[1].log_likes[3] # inv[1].log_likes[2]
  /\ inv[1].log_likes[2] # inv[1].log_likes[1]

\* C18: a run leaves its inputs as they are.  No step of a call changes
\* the arguments the call was made with (theta0 and args among them), and
\* every evaluation of a callable, at row 0 and on each candidate, is
\* passed args as the call received it.
C18_InputsUnchanged ==
  [][\A p \in Procs :
       /\ inv[p].pc # "idle" => inv'[p].in = inv[p].in
       /\ \A k \in 1..Len(inv'[p].evals) :
            inv'[p].evals[k].args = inv'[p].in.args]_vars

\* a run with observations as args and a theta0 that is not the zero
\* vector has evaluated row 0 and two candidates, and has moved
C18_Witness ==
  /\ inv[1].pc = "done"
  /\ inv[1].in.args = Data
  /\ inv[1].in.theta0 = <<Far, 0>>
  /\ Len(inv[1].evals) = 3
  /\ inv[1].evals[3].args = Data
  /\ inv[1].chain[2] # inv[1].in.theta0

\* what a frame has evaluated and drawn, by its place in the loop
Counted(p) ==
  LET f == inv[p]
      n == f.in.ndim
  IN /\ f.pc # "idle" => f.i <= f.in.nsteps - 1
     /\ f.pc \in {"for", "done"} =>
          /\ Len(f.evals) = f.i + 1
          /\ Len(f.drawn_at) = f.i * (n + 1)
     /\ f.pc = "accept" =>
          /\ Len(f.evals) = f.i + 1
          /\ Len(f.drawn_at) = (f.i - 1) * (n + 1) + n
     /\ \A k \in 2..Len(f.evals) : f.evals[k].fn = "ln_likelihood"

\* how far a frame is through the statements of run_mcmc
Rank(f) ==
  CASE f.pc = "idle" -> 0
    [] f.pc = "start" -> 1
    [] f.pc = "for" -> 2 + 2 * f.i
    [] f.pc = "accept" -> 1 + 2 * f.i
    [] f.pc = "done" -> 1 + 2 * f.in.nsteps
    [] OTHER -> 2 + 2 * f.in.nsteps

\* C19: a call with nsteps >= 1 whose evaluations all return ends after
\* nsteps - 1 iterations, each with one proposal (ndim normal draws), one
\* evaluation of the candidate and one uniform draw; with nsteps = 1 the
\* chain is [theta0] and nothing is drawn.  The run cannot go on for
\* ever: a frame that is not over can take a step, and every step takes
\* it further through a bounded sequence of statements.
C19_Terminates ==
  /\ [](\A p \in Procs :
         /\ Counted(p)
         /\ inv[p].pc = "done" =>
              /\ inv[p].i = inv[p].in.nsteps - 1
              /\ Len(inv[p].evals) = inv[p].in.nsteps
              /\ Len(inv[p].drawn_at) = (inv[p].in.nsteps - 1) * (inv[p].in.ndim + 1)
              /\ rng = Len(inv[p].drawn_at)
         /\ (inv[p].pc = "done" /\ inv[p].in.nsteps = 1) =>
              /\ inv[p].chain = <<inv[p].in.theta0>>
              /\ inv[p].ret = <<Obj("chain", <<inv[p].in.theta0>>)>>
              /\ inv[p].drawn_at = <<>>
              /\ stream = <<>>
         /\ inv[p].pc \in {"start", "for", "accept"} => ENABLED Step(p)
         /\ Rank(inv[p]) <= 2 + 2 * inv[p].in.nsteps)
  /\ [][\A p \in Procs :
         inv'[p] # inv[p] => Rank(inv'[p]) > Rank(inv[p])]_vars

\* a run of three steps is over after two iterations, the first of them
\* rejected, with six draws consumed
C19_Witness ==
  /\ inv[1].pc = "done"
  /\ inv[1].in.nsteps = 3
  /\ inv[1].in.ndim = 2
  /\ inv[1].i = 2
  /\ inv[1].chain[2] = inv[1].chain[1]
  /\ inv[1].theta_new # inv[1].chain[2]
  /\ rng = 6

\* a log value that is finite or greater
FiniteOrGreater(a) == a.k \in {"fin", "+inf"}

\* C20: from a finite log_likes[i - 1] a candidate whose log value is
\* -inf is rejected whatever r is, r = 0 included, and row i repeats row
\* i - 1; so once a row of log_likes is finite no later row is -inf (or
\* nan): every later row is finite or greater.
C20_FiniteClosed ==
  \A p \in Procs :
    /\ (AfterStep(p) /\ IsFinite(inv[p].log_likes[inv[p].i])
                     /\ inv[p].log_like_new = NegInf)
         => /\ inv[p].chain[inv[p].i + 1] = inv[p].chain[inv[p].i]
            /\ inv[p].log_likes[inv[p].i + 1] = inv[p].log_likes[inv[p].i]
    /\ \A k \in 1..Written(p) : \A l \in k..Written(p) :
         IsFinite(inv[p].log_likes[k]) => FiniteOrGreater(inv[p].log_likes[l])

\* from a finite log value a candidate of log value -inf, which is not
\* the current vector, met r = 0 and was rejected
C20_Witness ==
  /\ AfterStep(1)
  /\ IsFinite(inv[1].log_likes[inv[1].i])
  /\ inv[1].log_like_new = NegInf
  /\ inv[1].r = 0
  /\ inv[1].theta_new # inv[1].chain[inv[1].i]
  /\ inv[1].chain[inv[1].i + 1] = inv[1].chain[inv[1].i]

\* ----------------------------------------- claims, 05-Radial-Velocity
\* radial_velocity has returned an array of velocities
RvReturned == fr.rv_calls # <<>> /\ fr.pc \in {"log_likelihood", "done"}

\* theta is within theta_lim, the limits included
InLimits(theta) ==
  \A i \in 1..7 : ThetaMin[i] <= theta[i] /\ theta[i] <= ThetaMax[i]

\* C11 as claimed: radial_velocity called with an eccentricity outside
\* [0, 1) or a period T <= 0 does not return a velocity.
C11_RejectsInvalid ==
  \A k \in 1..Len(fr.rv_calls) :
    (fr.rv_calls[k][2] < 0 \/ fr.rv_calls[k][2] >= Milli \/ fr.rv_calls[k][1] <= 0)
      => ~RvReturned

\* where compute_E is in its work: element j, iteration iter
KeplerRank(f) ==
  CASE f.pc = "compute_E" -> f.j * (BrentqMaxIter + 2)
    [] f.pc = "brentq" -> f.j * (BrentqMaxIter + 2) + 1 + f.br.iter
    [] OTHER -> (Len(f.M) + 1) * (BrentqMaxIter + 2)

C13_ShortCircuit ==
  fr.entry = "log_posterior" =>
    /\ (fr.pc # "log_posterior" /\ LogPrior(fr.theta) = NegInf)
         => fr.pc = "done" /\ fr.ret = <<NegInf>> /\ fr.rv_calls = <<>>
    /\ \A k \in 1..Len(fr.rv_calls) :
         /\ InLimits(fr.rv_calls[k])
         /\ 0 <= fr.rv_calls[k][2] /\ fr.rv_calls[k][2] < Milli
         /\ fr.rv_calls[k][1] > 0

\* C14: log_prior returns -inf exactly for the vectors that have a
\* parameter outside its limits; for a vector within them it returns the
\* finite -(ln T + ln K + ln s), the same as for the vector with e, V,
\* omega and chi replaced by other values within their limits.
C14_PriorRangeAndJeffreys ==
  (fr.entry = "log_prior" /\ fr.pc = "done") =>
    LET th == fr.theta
        out == \E i \in 1..7 : th[i] < ThetaMin[i] \/ th[i] > ThetaMax[i]
    IN /\ (fr.ret[1] = NegInf) <=> out
       /\ ~out =>
            /\ IsFinite(fr.ret[1])
            /\ fr.ret[1].v = -(Log(Fin(th[1])).v + Log(Fin(th[3])).v + Log(Fin(th[7])).v)
            /\ fr.ret[1] = LogPrior([th EXCEPT ![2] = Base[2], ![4] = Base[4],
                                              ![5] = Base[5], ![6] = Base[6]])

\* log_prior has returned a finite positive value for a vector on the
\* limits: T, K, s at their lower limits, e, omega, chi at their upper
\* ones, V at its lower one
C14_Witness ==
  /\ fr.entry = "log_prior"
  /\ fr.pc = "done"
  /\ fr.theta = <<200, 1000, 10, -2000000, TwoPi, 1000, 1>>
  /\ IsFinite(fr.ret[1])
  /\ fr.ret[1].v > 0

\* C15 as claimed: for T > 0 and e in [0, 1), whatever t and chi, each
\* mean anomaly radial_velocity computes is in [0, 2 pi), f(0) <= 0 <=
\* f(2 pi), and each E returned is in [0, 2 pi] with E - e sin E within
\* the tolerance (2 thousandths) of M.
C15_MeanAnomalyBracketsRoot ==
  (fr.rv_calls # <<>> /\ fr.theta[1] > 0 /\ 0 <= fr.theta[2] /\ fr.theta[2] < Milli) =>
    /\ fr.pc # "raised"
    /\ \A j \in 1..Len(fr.M) :
         /\ IsFinite(fr.M[j])
         /\ 0 <= fr.M[j].v /\ fr.M[j].v < TwoPi
         /\ KeplerF(0, fr.M[j], fr.e).v <= 0
         /\ KeplerF(TwoPi, fr.M[j], fr.e).v >= 0
    /\ \A j \in 1..Len(fr.E) :
         /\ 0 <= fr.E[j].v /\ fr.E[j].v <= TwoPi
         /\ Abs(KeplerF(fr.E[j].v, fr.M[j], fr.e).v) <= 2

=============================================================================
